---- MODULE Spec2Model ----
(***************************************************************************)
(* Token Merging (ToMe) for timm vision transformers: the patched model's  *)
(* forward pass (opentome/timm/tome.py) and the throughput harness         *)
(* (evaluations/throughput/benchmark.py).                                  *)
(*                                                                         *)
(* A token sequence is modelled by the identities of its tokens (the index *)
(* each token had in the input of the forward pass), one batch element:    *)
(* batch elements share the popped merge count and nothing else.  The      *)
(* feature values are not modelled; what the similarity scores decide      *)
(* (which tokens merge into which) is a nondeterministic input.            *)
(***************************************************************************)
EXTENDS Integers, Sequences, FiniteSets, TLC

\* ---- bounds of the model ----
NumBlocks == 3      \* len(self.blocks)
MaxTokens == 4      \* longest input token sequence
MaxR == 1           \* largest merge ratio a user configures
MaxPatch == 2       \* how many times tome_apply_patch is applied to one model
MaxRuns == 2        \* calls of ThroughputBenchmark.run in one sweep

Passes == {1, 2}                \* forward invocations that may be in flight
Inflections == {-1, 0, 1}       \* shape parameter of the schedule

\* ---- Python's Optional ----
None == [some |-> FALSE]
Some(v) == [some |-> TRUE, val |-> v]

\* _tome_info["r"] holds the configuration until forward() expands it to a list
Cfg(c) == [parsed |-> FALSE, cfg |-> c]
List(s) == [parsed |-> TRUE, list |-> s]

VARIABLES
    model_r,        \* model.r: <<ratio, inflect>>
    patch_depth,    \* number of nested ToMeVisionTransformer classes of model.__class__
    tome_info,      \* model._tome_info, the dict shared by the model and its blocks
    fwd,            \* per forward invocation: the locals of forward() and of the running block
    results,        \* ThroughputBenchmark.results
    calls           \* history: the calls of run so far, each with how it ended

vars == <<model_r, patch_depth, tome_info, fwd, results, calls>>
bench == <<results, calls>>
model == <<model_r, patch_depth, tome_info, fwd>>

\* ---- helpers ----
RECURSIVE Ascending(_)
Ascending(S) ==
    IF S = {} THEN <<>>
    ELSE LET m == CHOOSE m \in S : \A k \in S : m <= k
         IN <<m>> \o Ascending(S \ {m})

RECURSIVE SumOver(_, _)
SumOver(f, S) ==
    IF S = {} THEN 0
    ELSE LET a == CHOOSE a \in S : TRUE
         IN f[a] + SumOver(f, S \ {a})

RECURSIVE UnionOver(_, _)
UnionOver(f, S) ==
    IF S = {} THEN {}
    ELSE LET a == CHOOSE a \in S : TRUE
         IN f[a] \cup UnionOver(f, S \ {a})

RECURSIVE SeqSum(_)
SeqSum(s) == IF s = <<>> THEN 0 ELSE Head(s) + SeqSum(Tail(s))

Min(a, b) == IF a < b THEN a ELSE b

\* ---- Merge Planner ----
\* schedule entry of layer i (1-based) before the budget cap: linear in the
\* layer index, from ratio*(1-inflect) at the first layer to ratio*(1+inflect)
\* at the last
ShapeEntry(num_layers, ratio, inflect, i) ==
    LET min_val == ratio * (1 - inflect)
        max_val == 2 * ratio - min_val
    IN IF num_layers = 1 THEN ratio
       ELSE min_val + (((max_val - min_val) * (i - 1)) \div (num_layers - 1))

RECURSIVE CapTo(_, _)
CapTo(s, budget) ==
    IF s = <<>> THEN <<>>
    ELSE LET e == Min(Head(s), budget)
         IN <<e>> \o CapTo(Tail(s), budget - e)

parse_r(num_layers, r, total) ==
    LET raw == [i \in 1..num_layers |-> ShapeEntry(num_layers, r[1], r[2], i)]
    IN IF total.some THEN CapTo(raw, total.val) ELSE raw

\* ---- Bipartite Matcher ----
Protected(class_token, distill_token) ==
    (IF class_token THEN 1 ELSE 0) + (IF distill_token THEN 1 ELSE 0)

\* positions of set A (even) and set B (odd) among the unprotected tokens
SetA(n, p) == {i \in (p + 1)..n : (i - p - 1) % 2 = 0}
SetB(n, p) == {i \in (p + 1)..n : (i - p - 1) % 2 = 1}

\* every mapping the matcher can return for n tokens, over all metric values:
\* the r best-scoring A tokens (r clamped to the available pairs), each sent to
\* its best-matching B token
bipartite_soft_matching(n, r, class_token, distill_token) ==
    LET p == Protected(class_token, distill_token)
        A == SetA(n, p)
        B == SetB(n, p)
        k == IF r <= 0 THEN 0 ELSE Min(r, Min(Cardinality(A), Cardinality(B)))
    IN UNION { { [n |-> n, p |-> p, src |-> S, dst |-> d] : d \in [S -> B] }
               : S \in {T \in SUBSET A : Cardinality(T) = k} }

NoMerge == [n |-> 0, p |-> 0, src |-> {}, dst |-> <<>>]

\* ---- Merge Applicator ----
\* positions of the input that survive, in output order: protected tokens,
\* unmerged A tokens, all B tokens
Keep(merge) ==
    Ascending(1..merge.p)
        \o Ascending(SetA(merge.n, merge.p) \ merge.src)
        \o Ascending(SetB(merge.n, merge.p))

Into(merge, j) == {a \in merge.src : merge.dst[a] = j}

\* (x', size'), or None when the shapes do not fit (torch raises)
merge_wavg(merge, x, size) ==
    LET sz == IF size.some THEN size.val ELSE [i \in 1..Len(x) |-> 1]
        keep == Keep(merge)
    IN IF Len(x) # merge.n \/ Len(sz) # merge.n THEN None
       ELSE Some([x |-> [k \in 1..Len(keep) |-> x[keep[k]]],
                  size |-> [k \in 1..Len(keep) |->
                              sz[keep[k]] + SumOver(sz, Into(merge, keep[k]))]])

\* source', or None when the shapes do not fit (torch raises)
merge_source(merge, x, source) ==
    LET so == IF source.some THEN source.val ELSE [i \in 1..Len(x) |-> {i}]
        keep == Keep(merge)
    IN IF Len(x) # merge.n \/ Len(so) # merge.n THEN None
       ELSE Some([k \in 1..Len(keep) |->
                    so[keep[k]] \cup UnionOver(so, Into(merge, keep[k]))])

\* ---- tome_apply_patch ----
Patched(trace_source, prop_attn, cls_token, dist_token) ==
    [r |-> Cfg(<<0, 0>>),
     size |-> None,
     source |-> None,
     total_merge |-> None,
     trace_source |-> trace_source,
     prop_attn |-> prop_attn,
     class_token |-> cls_token,
     distill_token |-> dist_token]

\* ---- a forward invocation's frame ----
NoMetric == [blk |-> 0, n |-> 0, numeric |-> TRUE]

Idle ==
    [pc |-> "idle", level |-> 0, blk |-> 0, x |-> <<>>, r |-> 0,
     metric |-> NoMetric, attn_size |-> None, merge |-> NoMerge,
     outcome |-> "none",
     \* history of the invocation
     n0 |-> 0, sched0 |-> <<>>, prologues |-> 0, popped |-> <<>>, log |-> <<>>,
     entry |-> None,
     \* the schedule the invocation before derived, if the configuration has
     \* not been set since
     prev |-> None]

Init ==
    /\ model_r = <<0, 0>>
    /\ patch_depth = 1
    /\ \E ts \in BOOLEAN, pa \in BOOLEAN, ct \in BOOLEAN, dt \in BOOLEAN :
          tome_info = Patched(ts, pa, ct, dt)
    /\ fwd = [t \in Passes |-> Idle]
    /\ results = <<>>
    /\ calls = <<>>

AllIdle == \A t \in Passes : fwd[t].pc = "idle"

\* tome_apply_patch(model, trace_source, prop_attn) on an already patched model:
\* one more ToMeVisionTransformer class around model.__class__, r and
\* _tome_info set anew; the token flags come from the model's attributes
tome_apply_patch(trace_source, prop_attn) ==
    /\ AllIdle
    /\ patch_depth < MaxPatch
    /\ patch_depth' = patch_depth + 1
    /\ model_r' = <<0, 0>>
    /\ tome_info' = Patched(trace_source, prop_attn,
                            tome_info.class_token, tome_info.distill_token)
    /\ fwd' = [t \in Passes |-> [fwd[t] EXCEPT !.prev = None]]
    /\ UNCHANGED bench

\* the caller configures the patched model before its forward passes:
\* model.r = (ratio, inflect); _tome_info["r"] = model.r;
\* _tome_info["total_merge"] = total
SetR(ratio, inflect, total) ==
    /\ AllIdle
    /\ model_r' = <<ratio, inflect>>
    /\ tome_info' = [tome_info EXCEPT !.r = Cfg(<<ratio, inflect>>),
                                      !.total_merge = total]
    /\ fwd' = [t \in Passes |-> [fwd[t] EXCEPT !.prev = None]]
    /\ UNCHANGED <<patch_depth, bench>>

Totals == {None} \cup {Some(k) : k \in 0..MaxR}

\* ---- ToMeVisionTransformer.forward ----
Snapshot(t) ==
    [left |-> IF tome_info.r.parsed THEN Len(tome_info.r.list) ELSE 0,
     size |-> tome_info.size.some,
     source |-> tome_info.source.some,
     last |-> fwd[t].outcome,
     prev |-> fwd[t].prev]

\* model(x) is called with n tokens per batch element
Call(t, n) ==
    /\ fwd[t].pc = "idle"
    /\ fwd' = [fwd EXCEPT ![t] =
                 [Idle EXCEPT !.pc = "prologue", !.level = patch_depth,
                              !.x = [i \in 1..n |-> i], !.n0 = n,
                              !.entry = Some(Snapshot(t))]]
    /\ UNCHANGED <<model_r, patch_depth, tome_info, bench>>

\* Prologue without line 123: the size of the previous pass is kept
Prologue_KeepSize(t) ==
    LET f == fwd[t]
        sched == parse_r(NumBlocks, model_r, tome_info.total_merge)
    IN /\ f.pc = "prologue"
       /\ tome_info' = [tome_info EXCEPT !.r = List(sched), !.source = None]
       /\ fwd' = [fwd EXCEPT ![t] =
                    [f EXCEPT !.level = f.level - 1,
                              !.pc = IF f.level = 1 THEN "attend" ELSE "prologue",
                              !.blk = IF f.level = 1 THEN 1 ELSE 0,
                              !.sched0 = sched,
                              !.prologues = f.prologues + 1]]
       /\ UNCHANGED <<model_r, patch_depth, bench>>

\* Prologue that expands the configuration only while _tome_info["r"] is not
\* yet a list, and otherwise keeps the list the earlier pass popped from
Prologue_Once(t) ==
    LET f == fwd[t]
        sched == IF tome_info.r.parsed THEN tome_info.r.list
                 ELSE parse_r(NumBlocks, model_r, tome_info.total_merge)
    IN /\ f.pc = "prologue"
       /\ tome_info' = [tome_info EXCEPT !.r = List(sched), !.size = None,
                                         !.source = None]
       /\ fwd' = [fwd EXCEPT ![t] =
                    [f EXCEPT !.level = f.level - 1,
                              !.pc = IF f.level = 1 THEN "attend" ELSE "prologue",
                              !.blk = IF f.level = 1 THEN 1 ELSE 0,
                              !.sched0 = sched,
                              !.prologues = f.prologues + 1]]
       /\ UNCHANGED <<model_r, patch_depth, bench>>

\* lines 121-126 of one ToMeVisionTransformer class; super().forward is the
\* next class's forward, or the transformer's own, which runs the blocks
Prologue(t) ==
    LET f == fwd[t]
        sched == parse_r(NumBlocks, model_r, tome_info.total_merge)
    IN /\ f.pc = "prologue"
       /\ tome_info' = [tome_info EXCEPT !.r = List(sched), !.size = None,
                                         !.source = None]
       /\ fwd' = [fwd EXCEPT ![t] =
                    [f EXCEPT !.level = f.level - 1,
                              !.pc = IF f.level = 1 THEN "attend" ELSE "prologue",
                              !.blk = IF f.level = 1 THEN 1 ELSE 0,
                              !.sched0 = sched,
                              !.prologues = f.prologues + 1]]
       /\ UNCHANGED <<model_r, patch_depth, bench>>

\* an exception leaves forward(): the frame is gone, _tome_info stays as it is
Raise(f, exc) == [Idle EXCEPT !.pc = "done", !.outcome = exc, !.blk = f.blk,
                              !.x = f.x, !.n0 = f.n0, !.sched0 = f.sched0,
                              !.prologues = f.prologues,
                              !.popped = f.popped, !.log = f.log]

\* ---- ToMeBlock.forward ----
\* Attend with the assert of line 91 placed after the residual add of line 92
Attend_LateAssert(t) ==
    LET f == fwd[t]
        attn_size == IF tome_info.prop_attn THEN tome_info.size ELSE None
        g == [f EXCEPT !.attn_size = attn_size,
                       !.entry = None,
                       !.log = Append(f.log, <<f.blk, "attend">>)]
    IN /\ f.pc = "attend"
       /\ \E numeric \in BOOLEAN :
            fwd' = [fwd EXCEPT ![t] =
                IF attn_size.some /\ Len(attn_size.val) # Len(f.x)
                THEN Raise(g, "RuntimeError")
                ELSE IF ~numeric
                THEN Raise([g EXCEPT !.log = Append(g.log, <<f.blk, "residual1">>)],
                           "AssertionError")
                ELSE [g EXCEPT !.pc = "residual1",
                               !.metric = [blk |-> f.blk, n |-> Len(f.x),
                                           numeric |-> TRUE]]]
       /\ UNCHANGED <<model_r, patch_depth, tome_info, bench>>

\* Attend that hands the attention the size whatever prop_attn says (line 89)
Attend_AlwaysSize(t) ==
    LET f == fwd[t]
        attn_size == tome_info.size
        g == [f EXCEPT !.attn_size = attn_size,
                       !.entry = None,
                       !.log = Append(f.log, <<f.blk, "attend">>)]
    IN /\ f.pc = "attend"
       /\ \E numeric \in BOOLEAN :
            fwd' = [fwd EXCEPT ![t] =
                IF attn_size.some /\ Len(attn_size.val) # Len(f.x)
                THEN Raise(g, "RuntimeError")
                ELSE IF ~numeric
                THEN Raise(g, "AssertionError")
                ELSE [g EXCEPT !.pc = "residual1",
                               !.metric = [blk |-> f.blk, n |-> Len(f.x),
                                           numeric |-> TRUE]]]
       /\ UNCHANGED <<model_r, patch_depth, tome_info, bench>>

\* lines 89-91: attention with the size bias, then the assert on the metric
Attend(t) ==
    LET f == fwd[t]
        attn_size == IF tome_info.prop_attn THEN tome_info.size ELSE None
        g == [f EXCEPT !.attn_size = attn_size,
                       !.entry = None,
                       !.log = Append(f.log, <<f.blk, "attend">>)]
    IN /\ f.pc = "attend"
       /\ \E numeric \in BOOLEAN :
            fwd' = [fwd EXCEPT ![t] =
                IF attn_size.some /\ Len(attn_size.val) # Len(f.x)
                THEN Raise(g, "RuntimeError")
                ELSE IF ~numeric
                THEN Raise(g, "AssertionError")
                ELSE [g EXCEPT !.pc = "residual1",
                               !.metric = [blk |-> f.blk, n |-> Len(f.x),
                                           numeric |-> TRUE]]]
       /\ UNCHANGED <<model_r, patch_depth, tome_info, bench>>

\* line 92
Residual1(t) ==
    LET f == fwd[t]
    IN /\ f.pc = "residual1"
       /\ fwd' = [fwd EXCEPT ![t] =
                    [f EXCEPT !.pc = "decide",
                              !.log = Append(f.log, <<f.blk, "residual1">>)]]
       /\ UNCHANGED <<model_r, patch_depth, tome_info, bench>>

\* MergeDecide reading the head of the schedule without removing it
MergeDecide_NoPop(t) ==
    LET f == fwd[t]
        g == [f EXCEPT !.log = Append(f.log, <<f.blk, "decide">>)]
    IN /\ f.pc = "decide"
       /\ IF tome_info.r.list = <<>>
          THEN fwd' = [fwd EXCEPT ![t] = Raise(g, "IndexError")]
          ELSE LET r == Head(tome_info.r.list)
               IN fwd' = [fwd EXCEPT ![t] =
                           [g EXCEPT !.r = r,
                                     !.popped = Append(f.popped, r),
                                     !.pc = IF r > 0 THEN "match" ELSE "mlp"]]
       /\ UNCHANGED <<model_r, patch_depth, tome_info, bench>>

\* MergeDecide with the test of line 94 written r >= 0
MergeDecide_GE(t) ==
    LET f == fwd[t]
        g == [f EXCEPT !.log = Append(f.log, <<f.blk, "decide">>)]
    IN /\ f.pc = "decide"
       /\ IF tome_info.r.list = <<>>
          THEN /\ fwd' = [fwd EXCEPT ![t] = Raise(g, "IndexError")]
               /\ UNCHANGED tome_info
          ELSE LET r == Head(tome_info.r.list)
               IN /\ tome_info' = [tome_info EXCEPT
                                     !.r = List(Tail(tome_info.r.list))]
                  /\ fwd' = [fwd EXCEPT ![t] =
                               [g EXCEPT !.r = r,
                                         !.popped = Append(f.popped, r),
                                         !.pc = IF r >= 0 THEN "match" ELSE "mlp"]]
       /\ UNCHANGED <<model_r, patch_depth, bench>>

\* MergeDecide with the test of line 94 written r > 1
MergeDecide_GT1(t) ==
    LET f == fwd[t]
        g == [f EXCEPT !.log = Append(f.log, <<f.blk, "decide">>)]
    IN /\ f.pc = "decide"
       /\ IF tome_info.r.list = <<>>
          THEN /\ fwd' = [fwd EXCEPT ![t] = Raise(g, "IndexError")]
               /\ UNCHANGED tome_info
          ELSE LET r == Head(tome_info.r.list)
               IN /\ tome_info' = [tome_info EXCEPT
                                     !.r = List(Tail(tome_info.r.list))]
                  /\ fwd' = [fwd EXCEPT ![t] =
                               [g EXCEPT !.r = r,
                                         !.popped = Append(f.popped, r),
                                         !.pc = IF r > 1 THEN "match" ELSE "mlp"]]
       /\ UNCHANGED <<model_r, patch_depth, bench>>

\* lines 93-94: r = self._tome_info["r"].pop(0)
MergeDecide(t) ==
    LET f == fwd[t]
        g == [f EXCEPT !.log = Append(f.log, <<f.blk, "decide">>)]
    IN /\ f.pc = "decide"
       /\ IF tome_info.r.list = <<>>
          THEN /\ fwd' = [fwd EXCEPT ![t] = Raise(g, "IndexError")]
               /\ UNCHANGED tome_info
          ELSE LET r == Head(tome_info.r.list)
               IN /\ tome_info' = [tome_info EXCEPT
                                     !.r = List(Tail(tome_info.r.list))]
                  /\ fwd' = [fwd EXCEPT ![t] =
                               [g EXCEPT !.r = r,
                                         !.popped = Append(f.popped, r),
                                         !.pc = IF r > 0 THEN "match" ELSE "mlp"]]
       /\ UNCHANGED <<model_r, patch_depth, bench>>

\* Match that does not pass the class-token flag of line 99
Match_NoClassToken(t) ==
    LET f == fwd[t]
    IN /\ f.pc = "match"
       /\ \E m \in bipartite_soft_matching(f.metric.n, f.r,
                        FALSE, tome_info.distill_token) :
            fwd' = [fwd EXCEPT ![t] =
                     [f EXCEPT !.merge = m, !.pc = "apply",
                               !.log = Append(f.log, <<f.blk, "match">>)]]
       /\ UNCHANGED <<model_r, patch_depth, tome_info, bench>>

\* Match on a metric taken from the input of the pass, not from this block's
\* attention (line 97)
Match_StaleMetric(t) ==
    LET f == fwd[t]
    IN /\ f.pc = "match"
       /\ \E m \in bipartite_soft_matching(f.n0, f.r,
                        tome_info.class_token, tome_info.distill_token) :
            fwd' = [fwd EXCEPT ![t] =
                     [f EXCEPT !.merge = m, !.pc = "apply",
                               !.log = Append(f.log, <<f.blk, "match">>)]]
       /\ UNCHANGED <<model_r, patch_depth, tome_info, bench>>

\* lines 96-101
Match(t) ==
    LET f == fwd[t]
    IN /\ f.pc = "match"
       /\ \E m \in bipartite_soft_matching(f.metric.n, f.r,
                        tome_info.class_token, tome_info.distill_token) :
            fwd' = [fwd EXCEPT ![t] =
                     [f EXCEPT !.merge = m, !.pc = "apply",
                               !.log = Append(f.log, <<f.blk, "match">>)]]
       /\ UNCHANGED <<model_r, patch_depth, tome_info, bench>>

\* Apply that hands merge_wavg no size (line 106), so sizes restart at one
Apply_FreshSize(t) ==
    LET f == fwd[t]
        g == [f EXCEPT !.log = Append(f.log, <<f.blk, "apply">>)]
        src == IF tome_info.trace_source
               THEN merge_source(f.merge, f.x, tome_info.source)
               ELSE Some(0)
        out == merge_wavg(f.merge, f.x, None)
    IN /\ f.pc = "apply"
       /\ IF ~src.some
          THEN /\ fwd' = [fwd EXCEPT ![t] = Raise(g, "RuntimeError")]
               /\ UNCHANGED tome_info
          ELSE IF ~out.some
          THEN /\ fwd' = [fwd EXCEPT ![t] = Raise(g, "RuntimeError")]
               /\ tome_info' = IF tome_info.trace_source
                               THEN [tome_info EXCEPT !.source = src]
                               ELSE tome_info
          ELSE /\ fwd' = [fwd EXCEPT ![t] =
                            [g EXCEPT !.x = out.val.x, !.pc = "mlp"]]
               /\ tome_info' = [tome_info EXCEPT
                                  !.source = IF tome_info.trace_source
                                             THEN src ELSE @,
                                  !.size = Some(out.val.size)]
       /\ UNCHANGED <<model_r, patch_depth, bench>>

\* Apply that drops the merged sequence of line 106 and keeps x
Apply_KeepX(t) ==
    LET f == fwd[t]
        g == [f EXCEPT !.log = Append(f.log, <<f.blk, "apply">>)]
        src == IF tome_info.trace_source
               THEN merge_source(f.merge, f.x, tome_info.source)
               ELSE Some(0)
        out == merge_wavg(f.merge, f.x, tome_info.size)
    IN /\ f.pc = "apply"
       /\ IF ~src.some
          THEN /\ fwd' = [fwd EXCEPT ![t] = Raise(g, "RuntimeError")]
               /\ UNCHANGED tome_info
          ELSE IF ~out.some
          THEN /\ fwd' = [fwd EXCEPT ![t] = Raise(g, "RuntimeError")]
               /\ tome_info' = IF tome_info.trace_source
                               THEN [tome_info EXCEPT !.source = src]
                               ELSE tome_info
          ELSE /\ fwd' = [fwd EXCEPT ![t] =
                            [g EXCEPT !.pc = "mlp"]]
               /\ tome_info' = [tome_info EXCEPT
                                  !.source = IF tome_info.trace_source
                                             THEN src ELSE @,
                                  !.size = Some(out.val.size)]
       /\ UNCHANGED <<model_r, patch_depth, bench>>

\* Apply that hands merge_source no earlier trace (line 104)
Apply_StaleSource(t) ==
    LET f == fwd[t]
        g == [f EXCEPT !.log = Append(f.log, <<f.blk, "apply">>)]
        src == IF tome_info.trace_source
               THEN merge_source(f.merge, f.x, None)
               ELSE Some(0)
        out == merge_wavg(f.merge, f.x, tome_info.size)
    IN /\ f.pc = "apply"
       /\ IF ~src.some
          THEN /\ fwd' = [fwd EXCEPT ![t] = Raise(g, "RuntimeError")]
               /\ UNCHANGED tome_info
          ELSE IF ~out.some
          THEN /\ fwd' = [fwd EXCEPT ![t] = Raise(g, "RuntimeError")]
               /\ tome_info' = IF tome_info.trace_source
                               THEN [tome_info EXCEPT !.source = src]
                               ELSE tome_info
          ELSE /\ fwd' = [fwd EXCEPT ![t] =
                            [g EXCEPT !.x = out.val.x, !.pc = "mlp"]]
               /\ tome_info' = [tome_info EXCEPT
                                  !.source = IF tome_info.trace_source
                                             THEN src ELSE @,
                                  !.size = Some(out.val.size)]
       /\ UNCHANGED <<model_r, patch_depth, bench>>

\* Apply that updates the source trace whatever trace_source says (line 102)
Apply_TraceAlways(t) ==
    LET f == fwd[t]
        g == [f EXCEPT !.log = Append(f.log, <<f.blk, "apply">>)]
        src == merge_source(f.merge, f.x, tome_info.source)
        out == merge_wavg(f.merge, f.x, tome_info.size)
    IN /\ f.pc = "apply"
       /\ IF ~src.some
          THEN /\ fwd' = [fwd EXCEPT ![t] = Raise(g, "RuntimeError")]
               /\ UNCHANGED tome_info
          ELSE IF ~out.some
          THEN /\ fwd' = [fwd EXCEPT ![t] = Raise(g, "RuntimeError")]
               /\ tome_info' = [tome_info EXCEPT !.source = src]
          ELSE /\ fwd' = [fwd EXCEPT ![t] =
                            [g EXCEPT !.x = out.val.x, !.pc = "mlp"]]
               /\ tome_info' = [tome_info EXCEPT
                                  !.source = src,
                                  !.size = Some(out.val.size)]
       /\ UNCHANGED <<model_r, patch_depth, bench>>

\* lines 102-106
Apply(t) ==
    LET f == fwd[t]
        g == [f EXCEPT !.log = Append(f.log, <<f.blk, "apply">>)]
        src == IF tome_info.trace_source
               THEN merge_source(f.merge, f.x, tome_info.source)
               ELSE Some(0)
        out == merge_wavg(f.merge, f.x, tome_info.size)
    IN /\ f.pc = "apply"
       /\ IF ~src.some
          THEN /\ fwd' = [fwd EXCEPT ![t] = Raise(g, "RuntimeError")]
               /\ UNCHANGED tome_info
          ELSE IF ~out.some
          THEN /\ fwd' = [fwd EXCEPT ![t] = Raise(g, "RuntimeError")]
               /\ tome_info' = IF tome_info.trace_source
                               THEN [tome_info EXCEPT !.source = src]
                               ELSE tome_info
          ELSE /\ fwd' = [fwd EXCEPT ![t] =
                            [g EXCEPT !.x = out.val.x, !.pc = "mlp"]]
               /\ tome_info' = [tome_info EXCEPT
                                  !.source = IF tome_info.trace_source
                                             THEN src ELSE @,
                                  !.size = Some(out.val.size)]
       /\ UNCHANGED <<model_r, patch_depth, bench>>

\* lines 109-110, and the block stack's loop
Mlp(t) ==
    LET f == fwd[t]
        g == [f EXCEPT !.log = Append(f.log, <<f.blk, "mlp">>)]
    IN /\ f.pc = "mlp"
       /\ fwd' = [fwd EXCEPT ![t] =
                    IF f.blk < NumBlocks
                    THEN [g EXCEPT !.blk = f.blk + 1, !.pc = "attend"]
                    ELSE [g EXCEPT !.pc = "done", !.outcome = "returned"]]
       /\ UNCHANGED <<model_r, patch_depth, tome_info, bench>>

\* forward() has returned or raised: its locals are dropped
Exit(t) ==
    /\ fwd[t].pc = "done"
    /\ fwd' = [fwd EXCEPT ![t] =
                 [Idle EXCEPT !.outcome = fwd[t].outcome,
                              !.prev = Some(fwd[t].sched0)]]
    /\ UNCHANGED <<model_r, patch_depth, tome_info, bench>>

Tokens(t) == (Protected(tome_info.class_token, tome_info.distill_token) + 1)..MaxTokens

\* the steps of a forward invocation under way
Run(t) ==
    \/ Prologue(t)
    \/ Attend(t)
    \/ Residual1(t)
    \/ MergeDecide(t)
    \/ Match(t)
    \/ Apply(t)
    \/ Mlp(t)
    \/ Exit(t)

Configure ==
    \/ \E ts \in BOOLEAN, pa \in BOOLEAN : tome_apply_patch(ts, pa)
    \/ \E ratio \in 0..MaxR, inflect \in Inflections, total \in Totals :
          SetR(ratio, inflect, total)

\* one forward pass at a time
Next ==
    \/ Configure
    \/ \E n \in Tokens(1) : Call(1, n)
    \/ Run(1)

Spec == Init /\ [][Next]_vars

\* two threads call forward() on one model, patched with the default
\* arguments of tome_apply_patch (trace_source = True, prop_attn = True) and
\* then configured; the model has no distillation token
InitConc ==
    /\ patch_depth = 1
    /\ \E ratio \in 0..MaxR, inflect \in Inflections, total \in Totals,
          ct \in BOOLEAN :
          /\ model_r = <<ratio, inflect>>
          /\ tome_info = [Patched(TRUE, TRUE, ct, FALSE) EXCEPT
                            !.r = Cfg(<<ratio, inflect>>), !.total_merge = total]
    /\ fwd = [t \in Passes |-> Idle]
    /\ results = <<>>
    /\ calls = <<>>

\* each thread makes one call
NextConc ==
    \E t \in Passes :
        \/ \E n \in Tokens(t) : fwd[t].outcome = "none" /\ Call(t, n)
        \/ Run(t)

SpecConc == InitConc /\ [][NextConc]_vars

\* ---- evaluations/throughput/benchmark.py ----
ALGO_MAP == {"none", "tome", "dtem", "pitome", "diffrate"}
Algorithms == ALGO_MAP \cup {"fastv"}
ModelNames == {"vit_base_patch16_224", "resnet50"}
Budgets == {0, 98}

\* the parameters of tome_apply_patch(model, trace_source, prop_attn)
tome_apply_patch_params == {"model", "trace_source", "prop_attn"}

\* the keyword arguments run builds for the patch function
patch_kwargs(algorithm) ==
    (IF algorithm \in {"tome", "pitome", "dtem"} THEN {"trace_source"} ELSE {})
        \cup (IF algorithm = "tome"
              THEN {"h", "use_naive_local", "prop_attn"} ELSE {})

\* int(model_name.split('_patch')[-1].split('_')[0]) succeeds
HasPatchSize(model_name) == model_name = "vit_base_patch16_224"

\* the steps of run at which a call it makes can raise
Faults == {"none", "prep", "load", "patch", "configure", "input", "verbose",
           "warmup", "timed"}

\* an exception is raised inside the try block (lines 58-155)
RaisesInTry(model_name, algorithm, total_merge_num, verbose, fault) ==
    \/ ~HasPatchSize(model_name)
    \/ fault = "load"
    \/ algorithm = "tome" /\ ~(patch_kwargs(algorithm) \subseteq tome_apply_patch_params)
    \/ fault = "patch"
    \/ fault = "configure" /\ total_merge_num > 0 /\ algorithm # "none"
    \/ fault = "input"
    \/ fault = "verbose" /\ verbose
    \/ fault \in {"warmup", "timed"}

NaN == "nan"
Measured == "measured"

\* how a call of run ends: "skipped" (line 53), "raised" (an exception leaves
\* run), or the status of the record it appends
Ending(model_name, algorithm, total_merge_num, verbose, fault) ==
    IF algorithm \notin ALGO_MAP THEN "skipped"
    ELSE IF fault = "prep" THEN "raised"
    ELSE IF RaisesInTry(model_name, algorithm, total_merge_num, verbose, fault)
    THEN "failed"
    ELSE "success"

\* run whose except branch (lines 157-159) appends no record
run_DropFailed(model_name, batch_size, seq_len, algorithm, total_merge_num, verbose, fault) ==
    LET end == Ending(model_name, algorithm, total_merge_num, verbose, fault)
        metric == IF end = "failed" THEN NaN ELSE Measured
        key == [model_name |-> model_name, algorithm |-> algorithm,
                batch_size |-> batch_size, seq_len |-> seq_len,
                target_total_merge |-> total_merge_num]
    IN /\ Len(calls) < MaxRuns
       /\ calls' = Append(calls, [key |-> key, end |-> end,
                                 clean |-> fault = "none"])
       /\ results' = IF end = "success"
                     THEN Append(results,
                            [model_name |-> model_name, algorithm |-> algorithm,
                             batch_size |-> batch_size, seq_len |-> seq_len,
                             target_total_merge |-> total_merge_num,
                             latency_ms |-> metric,
                             throughput |-> metric,
                             peak_mem_mb |-> metric,
                             status |-> end])
                     ELSE results
       /\ UNCHANGED model

\* ThroughputBenchmark.run
run(model_name, batch_size, seq_len, algorithm, total_merge_num, verbose, fault) ==
    LET end == Ending(model_name, algorithm, total_merge_num, verbose, fault)
        metric == IF end = "failed" THEN NaN ELSE Measured
        key == [model_name |-> model_name, algorithm |-> algorithm,
                batch_size |-> batch_size, seq_len |-> seq_len,
                target_total_merge |-> total_merge_num]
    IN /\ Len(calls) < MaxRuns
       /\ calls' = Append(calls, [key |-> key, end |-> end,
                                 clean |-> fault = "none"])
       /\ results' = IF end \in {"failed", "success"}
                     THEN Append(results,
                            [model_name |-> model_name, algorithm |-> algorithm,
                             batch_size |-> batch_size, seq_len |-> seq_len,
                             target_total_merge |-> total_merge_num,
                             latency_ms |-> metric,
                             throughput |-> metric,
                             peak_mem_mb |-> metric,
                             status |-> end])
                     ELSE results
       /\ UNCHANGED model

NextBench ==
    \E model_name \in ModelNames, algorithm \in Algorithms,
       total_merge_num \in Budgets, verbose \in BOOLEAN, fault \in Faults :
        run(model_name, 8, 196, algorithm, total_merge_num, verbose, fault)

InitBench ==
    /\ model_r = <<0, 0>>
    /\ patch_depth = 1
    /\ tome_info = Patched(TRUE, TRUE, TRUE, FALSE)
    /\ fwd = [t \in Passes |-> Idle]
    /\ results = <<>>
    /\ calls = <<>>

SpecBench == InitBench /\ [][NextBench]_vars

\* ---- properties ----
\* the forward pass of thread 1, the only one under Spec
Running(f) == f.pc \notin {"idle", "prologue"}
Returned(f) == f.pc = "done" /\ f.outcome = "returned"
Prefix(s, k) == SubSeq(s, 1, k)

\* blocks of the pass whose Merge-decide step has run
Decided(f) ==
    IF f.pc \in {"match", "apply", "mlp"} \/ Returned(f) THEN f.blk ELSE f.blk - 1

\* C1: in a forward pass every block pops exactly one entry of the schedule
\* the prologue derived, block i gets entry i (zero entries included), the
\* schedule is never empty at a pop, and a completed pass has popped all
\* NumBlocks entries.
C1_ScheduleConsumption ==
    LET f == fwd[1]
    IN /\ f.outcome # "IndexError"
       /\ Running(f) =>
            /\ Len(f.sched0) = NumBlocks
            /\ Len(f.popped) = Decided(f)
            /\ f.popped = Prefix(f.sched0, Len(f.popped))
            /\ tome_info.r.list = SubSeq(f.sched0, Len(f.popped) + 1, NumBlocks)
       /\ Returned(f) => f.popped = f.sched0 /\ tome_info.r.list = <<>>

C1_Witness ==
    LET f == fwd[1]
    IN /\ Returned(f)
       /\ Len(f.popped) = NumBlocks
       /\ \E i \in 1..NumBlocks : f.popped[i] = 0
       /\ \E i \in 1..NumBlocks : f.popped[i] > 0

\* C2: whenever the size vector is set during a forward pass, it has one entry
\* per token and its entries sum to the sequence length the pass started with.
C2_SizeConservation ==
    LET f == fwd[1]
    IN Running(f) /\ tome_info.size.some =>
          /\ Len(tome_info.size.val) = Len(f.x)
          /\ SeqSum(tome_info.size.val) = f.n0

C2_Witness ==
    LET f == fwd[1]
    IN /\ Returned(f)
       /\ tome_info.size.some
       /\ Len(f.x) <= f.n0 - 2
       /\ \E i \in 1..Len(f.x) : tome_info.size.val[i] >= 3

\* the merges a block can make with n tokens of which p are protected
Available(n, p) == IF n > p THEN (n - p) \div 2 ELSE 0

\* length of the sequence after the blocks took the entries of s in turn
RECURSIVE LengthAfter(_, _, _)
LengthAfter(n, s, p) ==
    IF s = <<>> THEN n
    ELSE LengthAfter(n - Min(Head(s), Available(n, p)), Tail(s), p)

\* entries of the schedule whose merge has been applied to x
Applied(f) ==
    IF f.pc \in {"match", "apply"} THEN Prefix(f.popped, Len(f.popped) - 1)
    ELSE f.popped

\* C3 as stated: the final sequence length is the initial length minus the sum
\* of the popped schedule entries.
C3_LengthMinusSchedule ==
    LET f == fwd[1]
    IN Returned(f) => Len(f.x) = f.n0 - SeqSum(f.popped)

\* C3 amended: the sequence length never increases during a pass, and after
\* each block it is the initial length minus the sum, over the blocks so far,
\* of the smaller of the popped entry and the pairs available at that block.
C3_LengthMinusClamped ==
    /\ [](LET f == fwd[1]
          IN Running(f) =>
               Len(f.x) = LengthAfter(f.n0, Applied(f),
                            Protected(tome_info.class_token, tome_info.distill_token)))
    /\ [][fwd[1].pc # "idle" => Len(fwd'[1].x) <= Len(fwd[1].x)]_vars

C3_Witness ==
    LET f == fwd[1]
    IN /\ Returned(f)
       /\ Len(f.x) < f.n0
       /\ Len(f.x) > f.n0 - SeqSum(f.popped)

\* C4: the class and distillation tokens stay at the leading positions of the
\* sequence through the whole pass; nothing is merged into them and they are
\* merged into nothing.
C4_ProtectedTokens ==
    LET f == fwd[1]
        p == Protected(tome_info.class_token, tome_info.distill_token)
    IN Running(f) =>
         \A i \in 1..p :
            /\ i <= Len(f.x) /\ f.x[i] = i
            /\ tome_info.size.some => tome_info.size.val[i] = 1
            /\ tome_info.source.some => tome_info.source.val[i] = {i}

C4_Witness ==
    LET f == fwd[1]
    IN /\ Returned(f)
       /\ tome_info.class_token /\ tome_info.distill_token
       /\ tome_info.source.some
       /\ Len(f.x) < f.n0
       /\ f.x[1] = 1 /\ f.x[2] = 2

\* C5: under any interleaving of two forward passes on one model, each pass
\* pops the entries of the schedule its own prologue derived, in block order,
\* never finds the schedule empty, and never meets a size or source trace of
\* the other pass.
C5_IndependentPasses ==
    \A t \in Passes :
        LET f == fwd[t]
        IN /\ f.outcome \notin {"IndexError", "RuntimeError"}
           /\ Running(f) => f.popped = Prefix(f.sched0, Len(f.popped))
           /\ Returned(f) => f.popped = f.sched0

\* C6: when the first block of a forward invocation starts, the schedule is
\* the full one derived from the present configuration, and size and source
\* are unset, whatever the earlier invocations left behind.
C6_NoCarriedState ==
    LET f == fwd[1]
    IN f.pc = "attend" /\ f.blk = 1 =>
          /\ tome_info.r.parsed
          /\ tome_info.r.list = parse_r(NumBlocks, model_r, tome_info.total_merge)
          /\ Len(tome_info.r.list) = NumBlocks
          /\ ~tome_info.size.some
          /\ ~tome_info.source.some

\* the invocation before this one was aborted with part of its schedule
\* unpopped and with size and source set
C6_Witness ==
    LET f == fwd[1]
    IN /\ f.pc = "attend" /\ f.blk = 1
       /\ f.entry.some
       /\ f.entry.val.last = "AssertionError"
       /\ f.entry.val.left \in 1..(NumBlocks - 1)
       /\ f.entry.val.size /\ f.entry.val.source
       /\ ~tome_info.size.some /\ ~tome_info.source.some

AllZero(s) == \A i \in 1..Len(s) : s[i] = 0
Steps(f) == {f.log[i][2] : i \in 1..Len(f.log)}

\* C7: in a pass whose schedule is all zeros no block runs Match or Apply, the
\* token sequence keeps its length and order, and size and source stay unset.
C7_ZeroMerge ==
    LET f == fwd[1]
    IN Running(f) /\ AllZero(f.sched0) =>
          /\ f.x = [i \in 1..f.n0 |-> i]
          /\ ~tome_info.size.some
          /\ ~tome_info.source.some
          /\ Steps(f) \cap {"match", "apply"} = {}

C7_Witness ==
    LET f == fwd[1]
    IN /\ Returned(f)
       /\ AllZero(f.sched0)
       /\ Len(f.popped) = NumBlocks
       /\ tome_info.trace_source
       /\ f.n0 >= 3
       /\ Len(f.x) = f.n0

\* the source set of every token before the merge of this block
SourceBefore(f) ==
    IF tome_info.source.some THEN tome_info.source.val
    ELSE [i \in 1..Len(f.x) |-> {i}]

\* C8: with source tracing on, the source sets of the current tokens partition
\* the indices of the pass's input, each token lies in its own source set and
\* its size is the number of its sources; and an Apply step gives every merge
\* destination the union of the source sets of the tokens merged into it and
\* its own.
C8_SourcePartition ==
    /\ [](LET f == fwd[1]
          IN Running(f) /\ tome_info.trace_source /\ tome_info.source.some =>
               LET so == tome_info.source.val
               IN /\ Len(so) = Len(f.x)
                  /\ \A o \in 1..f.n0 :
                        Cardinality({k \in 1..Len(so) : o \in so[k]}) = 1
                  /\ \A k \in 1..Len(so) :
                        /\ so[k] \subseteq 1..f.n0
                        /\ f.x[k] \in so[k]
                        /\ tome_info.size.val[k] = Cardinality(so[k]))
    /\ [][fwd[1].pc = "apply" /\ fwd'[1].pc = "mlp" /\ tome_info.trace_source =>
            LET f == fwd[1]
                so == SourceBefore(f)
            IN \A a \in f.merge.src :
                 \E k \in 1..Len(tome_info'.source.val) :
                    /\ fwd'[1].x[k] = f.x[f.merge.dst[a]]
                    /\ tome_info'.source.val[k] =
                         so[f.merge.dst[a]] \cup
                         UNION {so[b] : b \in {c \in f.merge.src :
                                                 f.merge.dst[c] = f.merge.dst[a]}}]_vars

C8_Witness ==
    LET f == fwd[1]
    IN /\ Returned(f)
       /\ tome_info.trace_source /\ tome_info.source.some
       /\ Cardinality({i \in 1..NumBlocks : f.popped[i] > 0}) >= 2
       /\ \E k \in 1..Len(f.x) : Cardinality(tome_info.source.val[k]) >= 3

\* C9: a pass aborted by the assert on the metric ended in the Attend step of
\* its block: that block added no residual, popped no schedule entry, ran no
\* Match, Apply or MLP step, and no later block ran.
C9_MetricAbort ==
    LET f == fwd[1]
    IN f.pc = "done" /\ f.outcome = "AssertionError" =>
          /\ f.log # <<>>
          /\ f.log[Len(f.log)] = <<f.blk, "attend">>
          /\ \A i \in 1..Len(f.log) :
                /\ f.log[i][1] <= f.blk
                /\ f.log[i][1] = f.blk => f.log[i][2] = "attend"
          /\ Len(f.popped) = f.blk - 1
          /\ tome_info.r.list = SubSeq(f.sched0, f.blk, NumBlocks)

C9_Witness ==
    LET f == fwd[1]
    IN /\ f.pc = "done" /\ f.outcome = "AssertionError"
       /\ f.blk = 2
       /\ f.sched0[2] > 0
       /\ Len(tome_info.r.list) = NumBlocks - 1

\* C10: no call of run ends with an exception leaving run: every call for a
\* known algorithm appends a record, with status failed and not-a-number
\* metrics when something raised.
C10_NoEscape ==
    /\ \A i \in 1..Len(calls) : calls[i].end # "raised"
    /\ \A i \in 1..Len(results) :
          results[i].status = "failed" =>
             /\ results[i].latency_ms = NaN
             /\ results[i].throughput = NaN
             /\ results[i].peak_mem_mb = NaN

\* C11: a block whose popped entry exceeds the pairs available merges exactly
\* the available pairs: the mapping names only positions of the sequence, the
\* block does not raise, and the sequence it hands to the MLP has the length
\* of the size vector.
C11_ClampedMerge ==
    LET f == fwd[1]
        p == Protected(tome_info.class_token, tome_info.distill_token)
        avail == Available(f.metric.n, p)
    IN /\ f.outcome \notin {"RuntimeError", "IndexError"}
       /\ f.pc \in {"apply", "mlp"} /\ f.r > avail =>
            /\ Cardinality(f.merge.src) = avail
            /\ f.merge.src \subseteq (p + 1)..f.metric.n
            /\ \A a \in f.merge.src :
                  f.merge.dst[a] \in ((p + 1)..f.metric.n) \ f.merge.src
       /\ f.pc = "mlp" /\ f.r > avail =>
            /\ Len(f.x) = f.metric.n - avail
            /\ tome_info.size.some
            /\ Len(tome_info.size.val) = Len(f.x)

\* the sequence has shrunk in an earlier block and the entry is still larger
\* than the pairs left
C11_Witness ==
    LET f == fwd[1]
        p == Protected(tome_info.class_token, tome_info.distill_token)
    IN /\ f.pc = "mlp"
       /\ f.metric.n < f.n0
       /\ Available(f.metric.n, p) >= 1
       /\ f.r > Available(f.metric.n, p)
       /\ Len(f.x) < f.metric.n

\* C12: a forward invocation that follows another one with model.r and
\* total_merge not set in between derives the schedule the earlier one
\* derived, entry for entry, however much of it the earlier one popped.
C12_ScheduleDeterminism ==
    LET f == fwd[1]
    IN /\ f.pc = "attend" /\ f.blk = 1
       /\ f.entry.some /\ f.entry.val.prev.some
       => /\ f.sched0 = f.entry.val.prev.val
          /\ tome_info.r.list = f.entry.val.prev.val

\* the earlier invocation popped its whole schedule
C12_Witness ==
    LET f == fwd[1]
    IN /\ f.pc = "attend" /\ f.blk = 1
       /\ f.entry.some /\ f.entry.val.prev.some
       /\ f.entry.val.last = "returned"
       /\ f.entry.val.left = 0
       /\ Len(f.sched0) = NumBlocks
       /\ \E i \in 1..NumBlocks : f.sched0[i] > 0
       /\ f.sched0 = f.entry.val.prev.val

\* the steps block b has run so far, in order
RECURSIVE StepsOf(_, _)
StepsOf(log, b) ==
    IF log = <<>> THEN <<>>
    ELSE IF Head(log)[1] = b THEN <<Head(log)[2]>> \o StepsOf(Tail(log), b)
    ELSE StepsOf(Tail(log), b)

\* the steps of a whole block invocation that popped r
BlockSteps(r) ==
    <<"attend", "residual1", "decide">>
        \o (IF r > 0 THEN <<"match", "apply">> ELSE <<>>) \o <<"mlp">>

InBlock(f) == f.pc \in {"attend", "residual1", "decide", "match", "apply", "mlp"}

\* the steps of the blocks of the pass are in order, none repeated, Match and
\* Apply present exactly for a popped entry greater than 0, and Match works
\* on the metric this block's Attend took from the sequence before the merge
BlockOrder(f) ==
    /\ \A i \in 1..(Len(f.log) - 1) : f.log[i][1] <= f.log[i + 1][1]
    /\ \A b \in 1..NumBlocks :
          LET s == StepsOf(f.log, b)
          IN IF b <= Len(f.popped)
             THEN /\ Len(s) >= 3
                  /\ Len(s) <= Len(BlockSteps(f.popped[b]))
                  /\ s = Prefix(BlockSteps(f.popped[b]), Len(s))
             ELSE /\ Len(s) <= 2
                  /\ s = Prefix(BlockSteps(0), Len(s))
    /\ \A b \in 1..(f.blk - 1) : StepsOf(f.log, b) = BlockSteps(f.popped[b])
    /\ f.pc \in {"residual1", "decide", "match", "apply"} =>
          f.metric.blk = f.blk /\ f.metric.n = Len(f.x)
    /\ f.pc = "apply" => f.merge.n = f.metric.n

\* C13 as stated: every block a pass starts runs through to its MLP step, so
\* a pass that has ended has ended after the MLP step of a block.
C13_BlockAlwaysCompletes ==
    LET f == fwd[1]
    IN /\ Running(f) => BlockOrder(f)
       /\ f.pc = "done" =>
            f.log # <<>> /\ f.log[Len(f.log)] = <<f.blk, "mlp">>

\* C13 amended: the steps run in the order Attend, Residual-1, Merge-decide,
\* Match, Apply, MLP, none repeated; Match and Apply run exactly when the
\* popped entry is greater than 0; Match uses the metric of the same block's
\* Attend on the sequence before the merge; a block under way can always take
\* its next step, and one that has ended has run its MLP step unless the
\* assert on the metric stopped it in Attend.
C13_BlockOrder ==
    LET f == fwd[1]
    IN /\ Running(f) => BlockOrder(f)
       /\ InBlock(f) => ENABLED Run(1)
       /\ f.pc = "done" =>
            /\ f.log # <<>>
            /\ \/ Returned(f) /\ f.log[Len(f.log)] = <<NumBlocks, "mlp">>
               \/ f.outcome = "AssertionError"
                    /\ f.log[Len(f.log)] = <<f.blk, "attend">>

C13_Witness ==
    LET f == fwd[1]
    IN /\ Returned(f)
       /\ \E b \in 1..NumBlocks : f.popped[b] > 0 /\ Len(StepsOf(f.log, b)) = 6
       /\ \E b \in 1..NumBlocks : f.popped[b] = 0 /\ Len(StepsOf(f.log, b)) = 4

\* C14: once the blocks of a forward invocation run, the prologue (schedule
\* derivation, size and source reset) has run exactly once in that invocation,
\* and no block step precedes it, however often the model was patched.
C14_PrologueOnce ==
    LET f == fwd[1]
    IN /\ f.pc = "prologue" => f.log = <<>>
       /\ Running(f) => f.prologues = 1

AllOnes(s) == \A i \in 1..Len(s) : s[i] = 1

\* the block under way has run Attend and not yet replaced x and size
Attended(f) == f.pc \in {"residual1", "decide", "match", "apply"}

\* C15 as stated: with proportional attention on, every block's Attend is
\* given a size vector with one entry per token of its input, all ones before
\* the first merge of the pass; with it off, Attend is given none.
C15_SizeVectorAlways ==
    LET f == fwd[1]
    IN Attended(f) =>
         IF tome_info.prop_attn
         THEN /\ f.attn_size.some
              /\ Len(f.attn_size.val) = Len(f.x)
              /\ "apply" \notin Steps(f) => AllOnes(f.attn_size.val)
         ELSE ~f.attn_size.some

\* C15 amended: with proportional attention on, Attend is given no size (None)
\* in every block up to and including the first one whose popped entry is
\* greater than 0, and from the next block on the size vector as the earlier
\* blocks' merges left it: one entry per token of the block's input, summing
\* to the input length of the pass; with it off, Attend is given none.
C15_SizeVectorAfterMerge ==
    LET f == fwd[1]
    IN Attended(f) =>
         IF tome_info.prop_attn
         THEN /\ f.attn_size = tome_info.size
              /\ f.attn_size.some <=> "apply" \in Steps(f)
              /\ f.attn_size.some <=>
                    \E b \in 1..(f.blk - 1) : f.popped[b] > 0
              /\ f.attn_size.some =>
                    /\ Len(f.attn_size.val) = Len(f.x)
                    /\ SeqSum(f.attn_size.val) = f.n0
         ELSE ~f.attn_size.some

C15_Witness ==
    LET f == fwd[1]
    IN /\ f.pc = "residual1"
       /\ tome_info.prop_attn
       /\ f.blk >= 2
       /\ f.attn_size.some
       /\ \E i \in 1..Len(f.attn_size.val) : f.attn_size.val[i] >= 2

\* C16: with trace_source off the source is None at every point of a forward
\* pass; with it on the source is set exactly once a block whose popped entry
\* is greater than 0 has run its Apply step, and within a pass the only step
\* that changes the source is the Apply step of such a block, which replaces it
\* by the merge's image of it.
C16_SourceTrace ==
    /\ [](LET f == fwd[1]
          IN Running(f) =>
               IF tome_info.trace_source
               THEN tome_info.source.some <=>
                      \E b \in 1..Len(Applied(f)) : Applied(f)[b] > 0
               ELSE ~tome_info.source.some)
    /\ [][LET f == fwd[1]
          IN /\ Running(f) /\ tome_info'.source # tome_info.source =>
                  /\ tome_info.trace_source
                  /\ f.pc = "apply"
                  /\ f.r > 0
             /\ f.pc = "apply" /\ fwd'[1].pc = "mlp" /\ tome_info.trace_source =>
                  tome_info'.source = merge_source(f.merge, f.x, tome_info.source)
             /\ f.pc = "decide" /\ fwd'[1].pc = "mlp" =>
                  tome_info'.source = tome_info.source]_vars

C16_Witness ==
    LET f == fwd[1]
    IN /\ Returned(f)
       /\ ~tome_info.trace_source
       /\ tome_info.size.some
       /\ Len(f.x) < f.n0
       /\ \E b \in 1..NumBlocks : f.popped[b] > 0
       /\ \E b \in 1..NumBlocks : f.popped[b] = 0

\* the calls of run that reached the append of lines 162-169
RECURSIVE Recorded(_)
Recorded(cs) ==
    IF cs = <<>> THEN <<>>
    ELSE IF Head(cs).end \in {"failed", "success"}
    THEN <<Head(cs)>> \o Recorded(Tail(cs))
    ELSE Recorded(Tail(cs))

KeyOf(rec) ==
    [model_name |-> rec.model_name, algorithm |-> rec.algorithm,
     batch_size |-> rec.batch_size, seq_len |-> rec.seq_len,
     target_total_merge |-> rec.target_total_merge]

\* status is 'success' or 'failed', and the metrics are NaN exactly when failed
WellFormed(rec) ==
    /\ rec.status \in {"success", "failed"}
    /\ \A m \in {rec.latency_ms, rec.throughput, rec.peak_mem_mb} :
          m = NaN <=> rec.status = "failed"

\* C17 as stated: results holds exactly one record per call of run, in call
\* order, keyed by the call's arguments, each with status 'success' or
\* 'failed' and NaN metrics exactly when failed.
C17_RecordPerCall ==
    /\ Len(results) = Len(calls)
    /\ \A i \in 1..Len(results) :
          /\ i <= Len(calls) => KeyOf(results[i]) = calls[i].key
          /\ WellFormed(results[i])

\* C17 amended: results holds, in call order, exactly one record for every
\* call of run that reached the end of run, and none for a call that returned
\* at the unknown-algorithm check or that an exception left; every record is
\* keyed by its call's arguments, carries the status its call ended with, and
\* has NaN metrics exactly when that status is 'failed'.
C17_RecordPerCompletedCall ==
    LET done == Recorded(calls)
    IN /\ Len(results) = Len(done)
       /\ \A i \in 1..Len(results) :
             /\ KeyOf(results[i]) = done[i].key
             /\ results[i].status = done[i].end
             /\ WellFormed(results[i])
       /\ \A i \in 1..Len(calls) :
             calls[i].key.algorithm \notin ALGO_MAP => calls[i].end = "skipped"

C17_Witness ==
    /\ Len(calls) = 2
    /\ calls[1].end = "skipped"
    /\ calls[2].end = "failed"
    /\ Len(results) = 1
    /\ results[1].status = "failed"
    /\ results[1].latency_ms = NaN

\* C18: the keyword arguments run passes for 'tome' are all parameters of
\* tome_apply_patch, and a 'tome' call of run whose model loads and in which
\* nothing outside this repository fails is recorded with status 'success'.
C18_TomePatchSucceeds ==
    \A i \in 1..Len(calls) :
        calls[i].key.algorithm = "tome" =>
          /\ patch_kwargs("tome") \subseteq tome_apply_patch_params
          /\ calls[i].clean /\ HasPatchSize(calls[i].key.model_name)
                => calls[i].end = "success"
====
